---- MODULE Spec2Model ----
(***************************************************************************)
(* Model of the WebSocket subscription / broadcast engine of the Robinhood *)
(* MCP server (src/src/api/websocket.py) together with the collaborators   *)
(* its pollers call (src/src/market_data/market_data.py,                   *)
(* src/src/trading/trading.py, src/src/auth/auth.py).                      *)
(*                                                                         *)
(* The server is one asyncio event loop.  Code between two awaits runs     *)
(* atomically; every `await websocket.send(...)` is a suspension point at  *)
(* which the other coroutines (connection handlers, the two pollers) may   *)
(* run.  Each action below is the code between two suspension points.      *)
(*                                                                         *)
(* The second part models the authenticated transport (AuthClient in       *)
(* src/src/auth/auth.py) and the REST routes built on it                   *)
(* (src/src/api/rest.py, src/src/utils/helpers.py).                        *)
(***************************************************************************)
EXTENDS Integers, Sequences, FiniteSets, TLC

(* ---------------------------- bounds ----------------------------------- *)
NumConn == 2            \* connections that connect during a run
MaxBuffered == 1        \* frames still buffered when a transport dies
MaxUnregCalls == 2      \* the unregister call counter saturates here
MaxLate == 1            \* members added behind a cursor that it still reaches

Conn == 1..NumConn

(* A frame is what json.loads makes of it: "invalid" is a text that is not *)
(* JSON (JSONDecodeError), "undecodable" a frame on which json.loads       *)
(* raises another exception (UnicodeDecodeError on a binary frame that is  *)
(* not UTF-8, RecursionError on a text of many nested brackets).           *)
(* Symbols a client can put into a "symbols" list.  JSON object keys of an *)
(* upstream reply are always strings; a client frame may carry any JSON    *)
(* value, and "#7" stands for the JSON number 7 (a non-string key).        *)
StrSymbols == {"BTC-USD", "ETH-USD"}
NonStrSymbols == {"#7"}
AllSymbols == StrSymbols \cup NonStrSymbols

Actions == {"subscribe", "unsubscribe", "other"}

Frames ==
    [type : {"invalid", "undecodable", "ping", "unknown"}]
    \cup [type : {"market_data"}, action : Actions, symbols : SUBSET AllSymbols]
    \cup [type : {"orders"}, action : Actions]

VARIABLES
    clients,                    \* self.clients
    market_data_subscriptions,  \* self.market_data_subscriptions: symbol -> set
    order_subscriptions,        \* keys of self.order_subscriptions
    alive,                      \* transport of the connection is open
    buffered,                   \* frames received before the transport died
    hpc,                        \* position of each connection's handler
    hreply,                     \* reply to the frame handled last, until sent
    unregCalls,                 \* invocations of unregister per connection
    unregRaised,                \* connections for which unregister raised
    md,                         \* market_data_updater: position and locals
    mdFetch,                    \* upstream call made by the last md tick
    mdErr,                      \* exception logged by the last md cycle
    mdOwed,                     \* (conn, symbol) the md cycle has yet to serve
    mdFailed,                   \* recipients whose send failed in the md cycle
    ord,                        \* order_updater: position and locals
    ordFetch,                   \* upstream call made by the last order tick
    ordErr,                     \* exception logged by the last order cycle
    ordOwed,                    \* conns the order cycle has yet to serve
    ordFailed,                  \* recipients whose send failed in the order cycle
    auth,                       \* the AuthClient and how its construction ended
    clock,                      \* UTC seconds, as _get_current_timestamp reads them
    signed,                     \* the last call of get_authorization_header
    signedBefore,               \* the call of get_authorization_header before it
    api,                        \* the last call of make_api_request
    rest                        \* the last request answered by a REST route

registry == <<clients, market_data_subscriptions, order_subscriptions>>
conns == <<alive, buffered, hpc, hreply>>
audit == <<unregCalls, unregRaised>>
mdVars == <<md, mdFetch, mdErr, mdOwed, mdFailed>>
ordVars == <<ord, ordFetch, ordErr, ordOwed, ordFailed>>
hubVars == <<registry, conns, audit, mdVars, ordVars>>
authVars == <<auth, clock, signed, signedBefore>>
restVars == <<api, rest>>
vars == <<hubVars, authVars, restVars>>

(* ------------------------- registry helpers ---------------------------- *)
Keys(subs) == DOMAIN subs

EmptySubs == [s \in {} |-> {}]

(* lines 82-85: create the set if absent, then add the connection *)
AddSubscriber(subs, w, syms) ==
    [s \in Keys(subs) \cup syms |->
        IF s \in syms
        THEN (IF s \in Keys(subs) THEN subs[s] ELSE {}) \cup {w}
        ELSE subs[s]]

(* the same removal without the `del` of an emptied set *)
RemoveSubscriberNoPrune(subs, w, syms) ==
    [s \in Keys(subs) |-> IF s \in syms THEN subs[s] \ {w} ELSE subs[s]]

(* the same removal applied to every symbol instead of the named ones *)
RemoveSubscriberEverywhere(subs, w, syms) ==
    [s \in {k \in Keys(subs) : subs[k] # {w}} |-> subs[s] \ {w}]

(* lines 99-103 and 40-44: remove the connection from each named symbol's *)
(* set and delete the key when the set became empty                       *)
RemoveSubscriber(subs, w, syms) ==
    LET emptied == {s \in Keys(subs) \cap syms : subs[s] \ {w} = {} /\ w \in subs[s]}
    IN  [s \in Keys(subs) \ emptied |->
            IF s \in syms THEN subs[s] \ {w} ELSE subs[s]]

(* unregister(websocket), lines 36-50.  clients.remove raises KeyError    *)
(* when the connection is not in the set, before anything is cleaned.     *)
Unregister(w, cl, subs, ords) ==
    IF w \notin cl
    THEN [raised |-> TRUE, clients |-> cl, subs |-> subs, ords |-> ords]
    ELSE [raised |-> FALSE,
          clients |-> cl \ {w},
          subs |-> RemoveSubscriber(subs, w, Keys(subs)),
          ords |-> ords \ {w}]

Bump(n) == IF n < MaxUnregCalls THEN n + 1 ELSE n

(* --------------------------- iterators --------------------------------- *)
(* `for websocket in self.market_data_subscriptions[symbol]` (line 198)    *)
(* holds an iterator on one set object across the awaits of the loop body. *)
(* used is the size of the set when the iterator was made (-1 once the set *)
(* object was emptied and dropped from the mapping: it then never has its  *)
(* old size again); pending are the members the cursor has yet to reach.   *)
(* A member removed meanwhile is not yielded.  A member added meanwhile    *)
(* lands before or behind the cursor (seen); the cursor only moves forward *)
(* through a table of bounded size, so it reaches only so many (late) of   *)
(* the members added behind it.                                            *)
SyncMd(m, subs, subs2, seen) ==
    IF m.pc # "send" \/ m.used = -1 THEN m
    ELSE IF m.sym \notin Keys(subs2)
         THEN [m EXCEPT !.used = -1, !.pending = {}]
         ELSE LET added == subs2[m.sym] \ subs[m.sym]
              IN  IF seen /\ added # {}
                  THEN [m EXCEPT !.pending = (m.pending \cap subs2[m.sym]) \cup added,
                                 !.late = m.late + 1]
                  ELSE [m EXCEPT !.pending = m.pending \cap subs2[m.sym]]

(* where a member added to the set under iteration can land *)
LandingsMd(m, subs, subs2) ==
    IF /\ m.pc = "send" /\ m.used # -1 /\ m.late < MaxLate
       /\ m.sym \in Keys(subs2)
       /\ subs2[m.sym] \ subs[m.sym] # {}
    THEN BOOLEAN ELSE {FALSE}

(* `for websocket in self.order_subscriptions` (line 221): the same for    *)
(* the keys of the dict, which is never replaced                           *)
SyncOrd(o, ords, ords2, seen) ==
    IF o.pc # "send" THEN o
    ELSE IF seen /\ ords2 \ ords # {}
         THEN [o EXCEPT !.pending = (o.pending \cap ords2) \cup (ords2 \ ords),
                        !.late = o.late + 1]
         ELSE [o EXCEPT !.pending = o.pending \cap ords2]

LandingsOrd(o, ords, ords2) ==
    IF o.pc = "send" /\ o.late < MaxLate /\ ords2 \ ords # {}
    THEN BOOLEAN ELSE {FALSE}

(* Deliveries a running cycle owes: to the connections that at the tick   *)
(* were subscribed with every reply received (Served), and that stayed    *)
(* connected and subscribed since.                                        *)
Served(al, pcs) == {w \in Conn : al[w] /\ pcs[w] = "recv"}

StillOwedMd(owed, al, subs2) ==
    {p \in owed : al[p[1]] /\ p[2] \in Keys(subs2) /\ p[1] \in subs2[p[2]]}

StillOwedOrd(owed, al, ords2) == {w \in owed : al[w] /\ w \in ords2}

(* the registry becomes (cl2, subs2, ords2); the pollers' iterators and   *)
(* the owed deliveries follow                                             *)
SetRegistry(cl2, subs2, ords2) ==
    /\ clients' = cl2
    /\ market_data_subscriptions' = subs2
    /\ order_subscriptions' = ords2
    /\ \E seen \in LandingsMd(md, market_data_subscriptions, subs2) :
         md' = SyncMd(md, market_data_subscriptions, subs2, seen)
    /\ \E seen \in LandingsOrd(ord, order_subscriptions, ords2) :
         ord' = SyncOrd(ord, order_subscriptions, ords2, seen)
    /\ mdOwed' = StillOwedMd(mdOwed, alive', subs2)
    /\ ordOwed' = StillOwedOrd(ordOwed, alive', ords2)

KeepRegistry ==
    /\ UNCHANGED <<registry, md, ord>>
    /\ mdOwed' = StillOwedMd(mdOwed, alive', market_data_subscriptions)
    /\ ordOwed' = StillOwedOrd(ordOwed, alive', order_subscriptions)

(* ----------------------------- event loop ------------------------------ *)
(* Handlers and pollers are coroutines of one event loop (start, lines     *)
(* 240-250).  get_best_bid_ask and get_orders are plain calls (lines 185   *)
(* and 212) that end in requests.get (auth.py line 81), which returns only *)
(* when the upstream has answered or its timeout has passed: a poller at   *)
(* "fetch" has not given the loop back, and no coroutine runs before it    *)
(* does.                                                                   *)
LoopFree == md.pc # "fetch" /\ ord.pc # "fetch"

(* ----------------------- connection handler ---------------------------- *)
(* handler(), lines 229-231: register, then wait for the first frame *)
Connect(c) ==
    /\ UNCHANGED <<authVars, restVars>>
    /\ LoopFree
    /\ hpc[c] = "new"
    /\ hpc' = [hpc EXCEPT ![c] = "recv"]
    /\ alive' = [alive EXCEPT ![c] = TRUE]
    /\ SetRegistry(clients \cup {c}, market_data_subscriptions,
                   order_subscriptions)
    /\ UNCHANGED <<buffered, hreply, audit, mdFetch, mdErr, mdFailed,
                   ordFetch, ordErr, ordFailed>>

(* the peer goes away; frames it sent before are still buffered and are   *)
(* handed to the handler by `async for message in websocket`, while every *)
(* later send raises ConnectionClosed                                     *)
Drop(c) ==
    /\ UNCHANGED <<authVars, restVars>>
    /\ hpc[c] \in {"recv", "reply", "xreply"}
    /\ alive[c]
    /\ alive' = [alive EXCEPT ![c] = FALSE]
    /\ \E n \in 0..MaxBuffered : buffered' = [buffered EXCEPT ![c] = n]
    /\ KeepRegistry
    /\ UNCHANGED <<hpc, hreply, audit, mdFetch, mdErr, mdFailed,
                   ordFetch, ordErr, ordFailed>>

(* lines 149-150 with the ping frame dropped without an answer *)
PongSilent(subs, ords) ==
    [subs |-> subs, ords |-> ords, pc |-> "recv", reply |-> "no_reply"]

(* lines 149-150: a ping is answered with {"type": "pong"} *)
Pong(subs, ords) ==
    [subs |-> subs, ords |-> ords, pc |-> "reply", reply |-> "pong"]

(* handle_message up to its first await, lines 143-168, with              *)
(* handle_market_data_subscription (68-113) and handle_order_subscription *)
(* (115-141): the new registry, the reply and where it is sent from       *)
(* ("reply": inside the try of handle_message, "xreply": inside one of    *)
(* its except clauses, "recv": handle_message returns without sending    *)
(* anything, reply "no_reply")                                            *)
Dispatch(c, f, subs, ords) ==
    IF f.type = "invalid"
    THEN [subs |-> subs, ords |-> ords, pc |-> "xreply", reply |-> "error_json"]
    ELSE IF f.type = "undecodable"
    THEN [subs |-> subs, ords |-> ords, pc |-> "xreply", reply |-> "error_processing"]
    ELSE IF f.type = "ping"
    THEN Pong(subs, ords)
    ELSE IF f.type = "market_data"
    THEN IF f.symbols = {}
         THEN [subs |-> subs, ords |-> ords, pc |-> "reply", reply |-> "error_nosymbols"]
         ELSE IF f.action = "subscribe"
         THEN [subs |-> AddSubscriber(subs, c, f.symbols), ords |-> ords,
               pc |-> "reply", reply |-> "subscribed"]
         ELSE IF f.action = "unsubscribe"
         THEN [subs |-> RemoveSubscriber(subs, c, f.symbols), ords |-> ords,
               pc |-> "reply", reply |-> "unsubscribed"]
         ELSE [subs |-> subs, ords |-> ords, pc |-> "recv", reply |-> "no_reply"]
    ELSE IF f.type = "orders"
    THEN IF f.action = "subscribe"
         THEN [subs |-> subs, ords |-> ords \cup {c},
               pc |-> "reply", reply |-> "subscribed"]
         ELSE IF f.action = "unsubscribe"
         THEN [subs |-> subs, ords |-> ords \ {c},
               pc |-> "reply", reply |-> "unsubscribed"]
         ELSE [subs |-> subs, ords |-> ords, pc |-> "recv", reply |-> "no_reply"]
    ELSE [subs |-> subs, ords |-> ords, pc |-> "reply", reply |-> "error_type"]

(* handler(), lines 233-234: the next frame arrives and is dispatched *)
Receive(c, f) ==
    /\ UNCHANGED <<authVars, restVars>>
    /\ LoopFree
    /\ hpc[c] = "recv"
    /\ alive[c] \/ buffered[c] > 0
    /\ buffered' = [buffered EXCEPT ![c] = IF alive[c] THEN @ ELSE @ - 1]
    /\ UNCHANGED <<alive, audit, mdFetch, mdErr, mdFailed,
                   ordFetch, ordErr, ordFailed>>
    /\ LET d == Dispatch(c, f, market_data_subscriptions, order_subscriptions)
       IN  /\ hpc' = [hpc EXCEPT ![c] = d.pc]
           /\ hreply' = [hreply EXCEPT ![c] = d.reply]
           /\ SetRegistry(clients, d.subs, d.ords)

(* send_message (52-57) for the handler's own reply.  A failed send calls *)
(* unregister; its KeyError leaves send_message, is caught by the generic *)
(* except of handle_message (169-174) when the send was inside the try,   *)
(* and otherwise leaves handle_message and reaches the finally of handler *)
(* (237-238), whose unregister raises again and ends the handler task.    *)
SendReply(c) ==
    /\ UNCHANGED <<authVars, restVars>>
    /\ LoopFree
    /\ hpc[c] \in {"reply", "xreply"}
    /\ UNCHANGED <<alive, buffered, mdFetch, mdErr, mdFailed,
                   ordFetch, ordErr, ordFailed>>
    /\ IF alive[c]
       THEN /\ hpc' = [hpc EXCEPT ![c] = "recv"]
            /\ hreply' = [hreply EXCEPT ![c] = "none"]
            /\ KeepRegistry
            /\ UNCHANGED audit
       ELSE LET r == Unregister(c, clients, market_data_subscriptions,
                                order_subscriptions)
            IN  IF ~r.raised
                THEN /\ hpc' = [hpc EXCEPT ![c] = "recv"]
                     /\ hreply' = [hreply EXCEPT ![c] = "none"]
                     /\ SetRegistry(r.clients, r.subs, r.ords)
                     /\ unregCalls' = [unregCalls EXCEPT ![c] = Bump(@)]
                     /\ UNCHANGED unregRaised
                ELSE IF hpc[c] = "reply"
                THEN /\ hpc' = [hpc EXCEPT ![c] = "xreply"]
                     /\ hreply' = [hreply EXCEPT ![c] = "error_processing"]
                     /\ KeepRegistry
                     /\ unregCalls' = [unregCalls EXCEPT ![c] = Bump(@)]
                     /\ unregRaised' = unregRaised \cup {c}
                ELSE LET r2 == Unregister(c, r.clients, r.subs, r.ords)
                     IN  /\ hpc' = [hpc EXCEPT ![c] = IF r2.raised THEN "crashed" ELSE "done"]
                         /\ hreply' = [hreply EXCEPT ![c] = "none"]
                         /\ SetRegistry(r2.clients, r2.subs, r2.ords)
                         /\ unregCalls' = [unregCalls EXCEPT ![c] = Bump(Bump(@))]
                         /\ unregRaised' = unregRaised \cup {c}

(* handler(), lines 233-238: the frame iterator ends (or raises           *)
(* ConnectionClosed, which is passed), and the finally clause unregisters *)
Close(c) ==
    /\ UNCHANGED <<authVars, restVars>>
    /\ LoopFree
    /\ hpc[c] = "recv"
    /\ ~alive[c] /\ buffered[c] = 0
    /\ UNCHANGED <<alive, buffered, hreply, mdFetch, mdErr, mdFailed,
                   ordFetch, ordErr, ordFailed>>
    /\ LET r == Unregister(c, clients, market_data_subscriptions,
                           order_subscriptions)
       IN  /\ hpc' = [hpc EXCEPT ![c] = IF r.raised THEN "crashed" ELSE "done"]
           /\ SetRegistry(r.clients, r.subs, r.ords)
           /\ unregCalls' = [unregCalls EXCEPT ![c] = Bump(@)]
           /\ unregRaised' = IF r.raised THEN unregRaised \cup {c} ELSE unregRaised

(* ------------------------ upstream collaborators ----------------------- *)
Range(q) == {q[i] : i \in 1..Len(q)}

(* the orderings a list of the members of S can have *)
Orderings(S) == {q \in [1..Cardinality(S) -> S] : Range(q) = S}

(* ",".join(symbols), market_data.py line 27 *)
RECURSIVE Join(_)
Join(q) == IF Len(q) = 1 THEN q[1] ELSE q[1] \o "," \o Join(Tail(q))

(* what the upstream reads from a comma-separated "symbol" parameter *)
Split(param) == {s \in StrSymbols : \E q \in Orderings(StrSymbols) :
                    \E i \in 1..Len(q), j \in 1..Len(q) :
                        /\ i <= j
                        /\ param = Join(SubSeq(q, i, j))
                        /\ s \in Range(SubSeq(q, i, j))}

(* get_best_bid_ask(symbols), market_data.py lines 11-31, up to the call  *)
(* of make_api_request: the symbols the query asks for, or the TypeError  *)
(* str.join raises on a member that is not a string                       *)
BestBidAskRequest(symbols) ==
    IF symbols = <<>>
    THEN [raised |-> "none", symbols |-> {}]
    ELSE IF \E i \in 1..Len(symbols) : symbols[i] \notin StrSymbols
         THEN [raised |-> "TypeError", symbols |-> {}]
         ELSE [raised |-> "none", symbols |-> Split(Join(symbols))]

(* make_api_request, auth.py lines 78-107, as its callers see it: a       *)
(* network failure raises; a failure status makes `if response:` false    *)
(* (a Response is falsy when its status is 400 or above) and the function *)
(* returns None; otherwise the decoded body is returned                   *)
Outcomes == {"raise", "none", "json"}

(* the objects upstream can answer a best-bid-ask call with: the keys of  *)
(* a JSON object are strings, in the order of the document                *)
QuoteDicts == UNION {Orderings(S) : S \in SUBSET StrSymbols}

NoFetch == [calls |-> 0, symbols |-> {}]

(* ------------------------ market_data_updater -------------------------- *)
IdleMd == [pc |-> "idle", sym |-> "", w |-> 0, used |-> 0, pending |-> {},
           late |-> 0, todo |-> <<>>]

(* lines 188-199 from the head of the for loop over market_data.items()   *)
(* to the first send: symbols that are no key of the mapping are skipped, *)
(* the iterator over the subscriber set is made and yields its first      *)
(* member                                                                 *)
(* the same loops, sending to every connected client as broadcast() does *)
RECURSIVE MdStartsToAll(_, _)
MdStartsToAll(todo, subs) ==
    IF todo = <<>> THEN {[md |-> IdleMd, err |-> "none"]}
    ELSE LET s == Head(todo)
         IN  IF s \notin Keys(subs) \/ clients = {}
             THEN MdStartsToAll(Tail(todo), subs)
             ELSE {[md |-> [pc |-> "send", sym |-> s, w |-> w,
                            used |-> Cardinality(subs[s]),
                            pending |-> subs[s] \ {w},
                            late |-> 0,
                            todo |-> Tail(todo)],
                    err |-> "none"] : w \in clients}

RECURSIVE MdStarts(_, _)
MdStarts(todo, subs) ==
    IF todo = <<>> THEN {[md |-> IdleMd, err |-> "none"]}
    ELSE LET s == Head(todo)
         IN  IF s \notin Keys(subs) \/ subs[s] = {}
             THEN MdStarts(Tail(todo), subs)
             ELSE {[md |-> [pc |-> "send", sym |-> s, w |-> w,
                            used |-> Cardinality(subs[s]),
                            pending |-> subs[s] \ {w},
                            late |-> 0,
                            todo |-> Tail(todo)],
                    err |-> "none"] : w \in subs[s]}

(* line 198, the next step of the iterator after a send returned:         *)
(* RuntimeError when the set changed size, else the next member, else the *)
(* next symbol                                                            *)
(* the same step when the RuntimeError is not caught inside the loop: it *)
(* ends the task                                                         *)
MdNextUncaught(m, subs) ==
    IF m.used = -1 \/ Cardinality(subs[m.sym]) # m.used
    THEN {[md |-> [IdleMd EXCEPT !.pc = "dead"], err |-> "RuntimeError"]}
    ELSE IF m.pending = {}
    THEN MdStarts(m.todo, subs)
    ELSE {[md |-> [m EXCEPT !.w = x, !.pending = m.pending \ {x}],
           err |-> "none"] : x \in m.pending}

MdNext(m, subs) ==
    IF m.used = -1 \/ Cardinality(subs[m.sym]) # m.used
    THEN {[md |-> IdleMd, err |-> "RuntimeError"]}
    ELSE IF m.pending = {}
    THEN MdStarts(m.todo, subs)
    ELSE {[md |-> [m EXCEPT !.w = x, !.pending = m.pending \ {x}],
           err |-> "none"] : x \in m.pending}

(* line 181: symbols = list(self.market_data_subscriptions.keys()) *)
SnapshotSymbols(subs) == Orderings(Keys(subs))

(* lines 181-199 of one pass of the while loop, up to the first send (or  *)
(* to the sleep when nothing is sent)                                     *)
MdCycle ==
    /\ UNCHANGED <<authVars, restVars>>
    /\ UNCHANGED <<registry, conns, audit, ordVars>>
    /\ mdFailed' = {}
    /\ \E symbols \in SnapshotSymbols(market_data_subscriptions) :
         IF symbols = <<>>
         THEN /\ mdFetch' = NoFetch
              /\ mdErr' = "none"
              /\ md' = IdleMd
              /\ mdOwed' = {}
         ELSE LET req == BestBidAskRequest(symbols)
              IN  IF req.raised # "none"
                  THEN /\ mdFetch' = NoFetch
                       /\ mdErr' = req.raised
                       /\ md' = IdleMd
                       /\ mdOwed' = {}
                  ELSE /\ mdFetch' = [calls |-> 1, symbols |-> req.symbols]
                       /\ \E out \in Outcomes :
                            IF out = "raise"
                            THEN mdErr' = "Exception" /\ md' = IdleMd /\ mdOwed' = {}
                            ELSE IF out = "none"
                            THEN mdErr' = "AttributeError" /\ md' = IdleMd /\ mdOwed' = {}
                            ELSE \E market_data \in QuoteDicts :
                                   /\ \E n \in MdStarts(market_data,
                                                         market_data_subscriptions) :
                                        md' = n.md /\ mdErr' = n.err
                                   /\ mdOwed' =
                                        {p \in Conn \X Range(market_data) :
                                            /\ p[2] \in Keys(market_data_subscriptions)
                                            /\ p[1] \in market_data_subscriptions[p[2]]
                                            /\ p[1] \in Served(alive, hpc)}

(* one pass of the while loop, lines 179-199, the upstream call taking no *)
(* time                                                                   *)
MdTick ==
    /\ LoopFree
    /\ md.pc = "idle"
    /\ MdCycle

(* the same pass while no symbol is subscribed: nothing is fetched *)
MdIdleTick ==
    /\ Keys(market_data_subscriptions) = {}
    /\ MdTick

(* lines 181-185: the sleep is over, symbols are subscribed and            *)
(* get_best_bid_ask is called; the call is inside requests.get             *)
MdFetchStart ==
    /\ LoopFree
    /\ md.pc = "idle"
    /\ Keys(market_data_subscriptions) # {}
    /\ Keys(market_data_subscriptions) \subseteq StrSymbols
    /\ md' = [md EXCEPT !.pc = "fetch"]
    /\ UNCHANGED <<registry, conns, audit, mdFetch, mdErr, mdOwed, mdFailed,
                   ordVars, authVars, restVars>>

(* requests.get returns or raises, and the pass goes on to its first send *)
MdFetchEnd ==
    /\ md.pc = "fetch"
    /\ MdCycle

(* send_message (52-57) called from line 199 returns, and the loops go on *)
(* to the next send (or to the sleep).  A failed send calls unregister;   *)
(* its KeyError and the iterator's RuntimeError are caught at line 200.   *)
MdSendDone ==
    /\ UNCHANGED <<authVars, restVars>>
    /\ LoopFree
    /\ md.pc = "send"
    /\ UNCHANGED <<conns, mdFetch, ordFetch, ordErr, ordFailed>>
    /\ IF alive[md.w]
       THEN /\ UNCHANGED <<registry, audit, ord, mdFailed>>
            /\ ordOwed' = ordOwed
            /\ \E n \in MdNext(md, market_data_subscriptions) :
                 md' = n.md /\ mdErr' = n.err
            /\ mdOwed' = mdOwed \ {<<md.w, md.sym>>}
       ELSE LET r == Unregister(md.w, clients, market_data_subscriptions,
                                order_subscriptions)
            IN  /\ unregCalls' = [unregCalls EXCEPT ![md.w] = Bump(@)]
                /\ mdFailed' = mdFailed \cup {md.w}
                /\ clients' = r.clients
                /\ market_data_subscriptions' = r.subs
                /\ order_subscriptions' = r.ords
                /\ ord' = SyncOrd(ord, order_subscriptions, r.ords, FALSE)
                /\ ordOwed' = StillOwedOrd(ordOwed, alive, r.ords)
                /\ mdOwed' = StillOwedMd(mdOwed, alive, r.subs)
                /\ IF r.raised
                   THEN /\ unregRaised' = unregRaised \cup {md.w}
                        /\ md' = IdleMd
                        /\ mdErr' = "KeyError"
                   ELSE /\ UNCHANGED unregRaised
                        /\ \E n \in MdNext(SyncMd(md, market_data_subscriptions,
                                                  r.subs, FALSE), r.subs) :
                             md' = n.md /\ mdErr' = n.err

(* --------------------------- order_updater ----------------------------- *)
IdleOrd == [pc |-> "idle", w |-> 0, used |-> 0, pending |-> {}, late |-> 0,
            payload |-> "none"]

(* get_orders(), trading.py lines 71-87, as order_updater sees it: the    *)
(* order list, or None after a failure status                             *)
OrdersPayload(out) == IF out = "none" THEN "null" ELSE "orders"

(* line 221, the next step of the iterator over the dict *)
OrdNext(o, ords) ==
    IF Cardinality(ords) # o.used
    THEN {[ord |-> IdleOrd, err |-> "RuntimeError"]}
    ELSE IF o.pending = {}
    THEN {[ord |-> IdleOrd, err |-> "none"]}
    ELSE {[ord |-> [o EXCEPT !.w = x, !.pending = o.pending \ {x}],
           err |-> "none"] : x \in o.pending}

(* lines 210-222 of one pass of the while loop, up to the first send *)
OrdCycle ==
    /\ UNCHANGED <<authVars, restVars>>
    /\ UNCHANGED <<registry, conns, audit, mdVars>>
    /\ ordFailed' = {}
    /\ IF order_subscriptions = {}
       THEN /\ ordFetch' = NoFetch
            /\ ordErr' = "none"
            /\ ord' = IdleOrd
            /\ ordOwed' = {}
       ELSE /\ ordFetch' = [calls |-> 1, symbols |-> {}]
            /\ \E out \in Outcomes :
                 IF out = "raise"
                 THEN ordErr' = "Exception" /\ ord' = IdleOrd /\ ordOwed' = {}
                 ELSE /\ ordErr' = "none"
                      /\ \E w \in order_subscriptions :
                           ord' = [pc |-> "send", w |-> w,
                                   used |-> Cardinality(order_subscriptions),
                                   pending |-> order_subscriptions \ {w},
                                   late |-> 0,
                                   payload |-> OrdersPayload(out)]
                      /\ ordOwed' = order_subscriptions \cap Served(alive, hpc)

(* one pass of the while loop, lines 208-222, the upstream call taking no *)
(* time                                                                   *)
OrdTick ==
    /\ LoopFree
    /\ ord.pc = "idle"
    /\ OrdCycle

(* the same pass while nobody is subscribed to orders: nothing is fetched *)
OrdIdleTick ==
    /\ order_subscriptions = {}
    /\ OrdTick

(* lines 210-212: the sleep is over, somebody is subscribed and get_orders *)
(* is called; the call is inside requests.get                              *)
OrdFetchStart ==
    /\ LoopFree
    /\ ord.pc = "idle"
    /\ order_subscriptions # {}
    /\ ord' = [ord EXCEPT !.pc = "fetch"]
    /\ UNCHANGED <<registry, conns, audit, ordFetch, ordErr, ordOwed, ordFailed,
                   mdVars, authVars, restVars>>

(* requests.get returns or raises, and the pass goes on to its first send *)
OrdFetchEnd ==
    /\ ord.pc = "fetch"
    /\ OrdCycle

(* send_message (52-57) called from line 222 returns *)
OrdSendDone ==
    /\ UNCHANGED <<authVars, restVars>>
    /\ LoopFree
    /\ ord.pc = "send"
    /\ UNCHANGED <<conns, ordFetch, mdFetch, mdErr, mdFailed>>
    /\ IF alive[ord.w]
       THEN /\ UNCHANGED <<registry, audit, md, ordFailed>>
            /\ mdOwed' = mdOwed
            /\ \E n \in OrdNext(ord, order_subscriptions) :
                 ord' = n.ord /\ ordErr' = n.err
            /\ ordOwed' = ordOwed \ {ord.w}
       ELSE LET r == Unregister(ord.w, clients, market_data_subscriptions,
                                order_subscriptions)
            IN  /\ unregCalls' = [unregCalls EXCEPT ![ord.w] = Bump(@)]
                /\ ordFailed' = ordFailed \cup {ord.w}
                /\ clients' = r.clients
                /\ market_data_subscriptions' = r.subs
                /\ order_subscriptions' = r.ords
                /\ md' = SyncMd(md, market_data_subscriptions, r.subs, FALSE)
                /\ mdOwed' = StillOwedMd(mdOwed, alive, r.subs)
                /\ ordOwed' = StillOwedOrd(ordOwed, alive, r.ords)
                /\ IF r.raised
                   THEN /\ unregRaised' = unregRaised \cup {ord.w}
                        /\ ord' = IdleOrd
                        /\ ordErr' = "KeyError"
                   ELSE /\ UNCHANGED unregRaised
                        /\ \E n \in OrdNext(SyncOrd(ord, order_subscriptions, r.ords, FALSE),
                                            r.ords) :
                             ord' = n.ord /\ ordErr' = n.err

(* ------------------------------ AuthClient ----------------------------- *)
MaxClock == 2           \* seconds the clock advances during a run

Epoch == 1700000000
ClockTimes == Epoch..(Epoch + MaxClock)

(* ROBINHOOD_API_KEY: "" stands for an unset or empty variable *)
ApiKeys == {"", "K"}

(* ROBINHOOD_PRIVATE_KEY as base64.b64decode reads it: data characters of  *)
(* the alphabet, characters outside the alphabet, and trailing "="         *)
SeedText(data, junk, pad) == [data |-> data, junk |-> junk, pad |-> pad]

NoSeedText == SeedText(0, 0, 0)             \* unset or empty
GoodSeedText == SeedText(43, 0, 1)          \* 32 bytes

SeedTexts == {NoSeedText,
              SeedText(0, 4, 0),            \* "!!!!"
              SeedText(43, 0, 0),           \* the padding is missing
              SeedText(22, 0, 2),           \* 16 bytes
              GoodSeedText,
              SeedText(43, 1, 1),           \* 32 bytes and a stray character
              SeedText(64, 0, 0)}           \* 48 bytes

(* base64.b64decode(PRIVATE_KEY), line 22, without validate: characters    *)
(* outside the alphabet are discarded, missing padding raises              *)
(* binascii.Error; the result is the number of bytes decoded               *)
B64Decode(text) ==
    IF text.data % 4 = 1 THEN [raised |-> TRUE, bytes |-> 0]
    ELSE IF text.data % 4 = 2 /\ text.pad < 2 THEN [raised |-> TRUE, bytes |-> 0]
    ELSE IF text.data % 4 = 3 /\ text.pad < 1 THEN [raised |-> TRUE, bytes |-> 0]
    ELSE [raised |-> FALSE, bytes |-> (text.data * 6) \div 8]

(* SigningKey(seed), line 26, built without looking at the seed *)
SigningKeyUnchecked(seed_bytes) == FALSE

(* SigningKey(seed), line 26: raises unless the seed has 32 bytes *)
SigningKeyRaises(seed_bytes) == seed_bytes # 32

NoAuth == [state |-> "unbuilt", error |-> "none", api_key |-> "",
           seed |-> NoSeedText]

(* AuthClient.__init__, lines 17-27, for the environment (key, seed) *)
AuthClientInit(key, seed) ==
    LET failed(e) == [state |-> "failed", error |-> e, api_key |-> key,
                      seed |-> seed]
    IN  IF key = "" THEN failed("ValueError: API key not found")
        ELSE IF seed.data + seed.junk + seed.pad = 0
        THEN failed("ValueError: Private key not found")
        ELSE IF B64Decode(seed).raised THEN failed("binascii.Error")
        ELSE IF B64Decode(seed).bytes = 0
        THEN failed("ValueError: Private key not found")
        ELSE IF SigningKeyRaises(B64Decode(seed).bytes)
        THEN failed("ValueError: seed length")
        ELSE [state |-> "serving", error |-> "none", api_key |-> key,
              seed |-> seed]

(* str(n) of a non-negative int: its decimal digits *)
Digit(d) == CASE d = 0 -> "0" [] d = 1 -> "1" [] d = 2 -> "2" [] d = 3 -> "3"
              [] d = 4 -> "4" [] d = 5 -> "5" [] d = 6 -> "6" [] d = 7 -> "7"
              [] d = 8 -> "8" [] d = 9 -> "9"

RECURSIVE Str(_)
Str(n) == IF n < 10 THEN Digit(n) ELSE Str(n \div 10) \o Digit(n % 10)

(* timestamp=None *)
NoTimestamp == -1

(* lines 49-50 with the clock read whatever timestamp was passed *)
TimestampFromClock(timestamp, now) == now

(* lines 49-50: the timestamp passed, the clock when None was passed *)
TimestampUsed(timestamp, now) == IF timestamp = NoTimestamp THEN now ELSE timestamp

(* line 52 with method and path exchanged *)
MessageMethodFirst(api_key, timestamp, path, method, body) ==
    api_key \o Str(timestamp) \o method \o path \o body

(* line 52: f"{self.api_key}{timestamp}{path}{method}{body}" *)
MessageToSign(api_key, timestamp, path, method, body) ==
    api_key \o Str(timestamp) \o path \o method \o body

(* lines 53 and 57: the Ed25519 signature of the message under the key of  *)
(* the seed, base64-encoded; Ed25519 signing takes no randomness, so the   *)
(* signature is a function of the seed bytes and the message               *)
Signature(seed, message) ==
    [key_bytes |-> B64Decode(seed).bytes, of_message |-> message]

NoHeaders == [x_api_key |-> "", x_signature |-> Signature(NoSeedText, ""),
              x_timestamp |-> ""]

NoCall == [called |-> FALSE, method |-> "", path |-> "", body |-> "",
           timestamp |-> NoTimestamp, now |-> Epoch,
           message |-> "", headers |-> NoHeaders]

(* get_authorization_header, lines 34-59, called when the clock reads now *)
GetAuthorizationHeader(a, method, path, body, timestamp, now) ==
    LET ts == TimestampUsed(timestamp, now)
        message_to_sign == MessageToSign(a.api_key, ts, path, method, body)
    IN  [called |-> TRUE, method |-> method, path |-> path, body |-> body,
         timestamp |-> timestamp, now |-> now,
         message |-> message_to_sign,
         headers |-> [x_api_key |-> a.api_key,
                      x_signature |-> Signature(a.seed, message_to_sign),
                      x_timestamp |-> Str(ts)]]

Methods == {"GET", "POST"}
Paths == {"/api/v1/crypto/trading/accounts/", "/api/v1/crypto/trading/orders/"}
Bodies == {"", "{}"}
Timestamps == {NoTimestamp} \cup ClockTimes

(* auth_client = AuthClient(), rest.py line 35: the process builds its     *)
(* authenticator once, at import                                           *)
Construct(key, seed) ==
    /\ auth.state = "unbuilt"
    /\ auth' = AuthClientInit(key, seed)
    /\ UNCHANGED <<hubVars, clock, signed, signedBefore, restVars>>

(* a second passes *)
Tick ==
    /\ clock < Epoch + MaxClock
    /\ clock' = clock + 1
    /\ UNCHANGED <<hubVars, auth, signed, signedBefore, restVars>>

(* a call of get_authorization_header on the authenticator in service *)
Sign(method, path, body, timestamp) ==
    /\ auth.state = "serving"
    /\ signed' = GetAuthorizationHeader(auth, method, path, body, timestamp, clock)
    /\ signedBefore' = signed
    /\ UNCHANGED <<hubVars, auth, clock, restVars>>

(* --------------------------- make_api_request ------------------------- *)
(* what the upstream does with a request: the connection fails            *)
(* (requests raises a RequestException without a response), or it answers *)
(* with a status and a body that is empty, a JSON document or another text *)
Statuses == {200, 204, 401, 500}
Contents == {"empty", "json", "text"}

Upstream ==
    [kind : {"network_error"}, status : {0}, content : {"empty"}]
    \cup [kind : {"http"}, status : Statuses, content : Contents]

ApiMethods == {"GET", "POST", "DELETE", "PUT"}

(* bool(response), line 92: requests.Response.__bool__ returns self.ok,   *)
(* which is False for a status of 400 and above                           *)
ResponseTruthy(status) == status < 400

(* response.raise_for_status(), line 93 *)
RaiseForStatus(status) == status >= 400 /\ status < 600

NoRequest == [called |-> FALSE, method |-> "", path |-> "", body |-> "",
              upstream |-> [kind |-> "network_error", status |-> 0,
                            content |-> "empty"],
              http_calls |-> 0, outcome |-> "return", value |-> "None",
              error_has_status |-> FALSE, error_has_body |-> FALSE]

(* make_api_request, lines 61-107, when the upstream behaves as up: the    *)
(* HTTP calls made, whether the function returns or raises, the value      *)
(* returned and what the message of the exception includes                 *)
MakeApiRequest(method, path, body, up) ==
    LET result(n, o, v, st, bd) ==
            [called |-> TRUE, method |-> method, path |-> path, body |-> body,
             upstream |-> up, http_calls |-> n, outcome |-> o, value |-> v,
             error_has_status |-> st, error_has_body |-> bd]
    IN  IF method \notin {"GET", "POST", "DELETE"}
        THEN result(0, "return", "None", FALSE, FALSE)
        ELSE IF up.kind = "network_error"
        THEN result(1, "raise", "Exception", FALSE, FALSE)
        ELSE IF ResponseTruthy(up.status)
        THEN IF RaiseForStatus(up.status)
             THEN result(1, "raise", "Exception", ResponseTruthy(up.status),
                         ResponseTruthy(up.status) /\ up.content # "empty")
             ELSE IF up.content = "empty" THEN result(1, "return", "{}", FALSE, FALSE)
             ELSE IF up.content = "json" THEN result(1, "return", "json", FALSE, FALSE)
             ELSE result(1, "raise", "Exception", FALSE, FALSE)
        ELSE result(1, "return", "None", FALSE, FALSE)

(* a call of make_api_request on the authenticator in service: lines 74-75 *)
(* read the clock and sign, then the request is made                       *)
Request(method, path, body, up) ==
    /\ auth.state = "serving"
    /\ signed' = GetAuthorizationHeader(auth, method, path, body, clock, clock)
    /\ signedBefore' = signed
    /\ api' = MakeApiRequest(method, path, body, up)
    /\ UNCHANGED <<hubVars, auth, clock, rest>>

(* ------------------------------ REST routes ---------------------------- *)
(* the GET routes of rest.py, lines 61-158, by the name of their function *)
Routes == {"auth_status", "get_account", "get_holdings", "get_best_price",
           "get_estimated_price", "get_trading_pairs", "get_orders", "get_order"}

(* the upstream path the client method of a route asks for *)
RoutePath(r) ==
    CASE r = "auth_status" -> "/api/v1/crypto/trading/accounts/"
      [] r = "get_account" -> "/api/v1/crypto/trading/accounts/"
      [] r = "get_holdings" -> "/api/v1/crypto/trading/holdings/"
      [] r = "get_best_price" -> "/api/v1/crypto/marketdata/best_bid_ask/"
      [] r = "get_estimated_price" -> "/api/v1/crypto/marketdata/estimated_price/"
      [] r = "get_trading_pairs" -> "/api/v1/crypto/trading/trading_pairs/"
      [] r = "get_orders" -> "/api/v1/crypto/trading/orders/"
      [] r = "get_order" -> "/api/v1/crypto/trading/orders/42/"

(* check_auth_status, auth.py lines 109-130: the "status" of the dict it   *)
(* returns, given how its make_api_request ended                           *)
CheckAuthStatus(result) ==
    IF result.outcome = "raise" THEN "error" ELSE "authenticated"

(* format_response with the status "error" in place of the default *)
FormatResponseAsError(data, message) ==
    [status |-> "error", data |-> data, has_message |-> message # ""]

(* format_response(data, message=...), helpers.py lines 12-32, with the    *)
(* default status; message "" stands for None                              *)
FormatResponse(data, message) ==
    [status |-> "success", data |-> data, has_message |-> message # ""]

NoBody == [status |-> "", data |-> "", has_message |-> FALSE]

NoAnswer == [called |-> FALSE, route |-> "", client_calls |-> 0,
             http_status |-> 0, body |-> NoBody, error |-> "none"]

(* a route of rest.py lines 61-158 after its one client call returned or   *)
(* raised as result says: the HTTP status and the body it answers with.    *)
(* auth_status wraps the dict of check_auth_status, which never raises;    *)
(* the other routes wrap the value returned, or raise HTTPException 500;   *)
(* in get_orders the name `status` is the query parameter, so building     *)
(* that HTTPException raises AttributeError, which is answered with 500.   *)
RouteAnswer(r, result) ==
    LET answer(code, body, e) ==
            [called |-> TRUE, route |-> r, client_calls |-> 1,
             http_status |-> code, body |-> body, error |-> e]
    IN  IF r = "auth_status"
        THEN answer(200, FormatResponse(CheckAuthStatus(result), ""), "none")
        ELSE IF result.outcome = "raise"
        THEN IF r = "get_orders"
             THEN answer(500, NoBody, "AttributeError")
             ELSE answer(500, NoBody, "HTTPException")
        ELSE answer(200, FormatResponse(result.value, ""), "none")

(* a request to one of the routes: its client method calls                 *)
(* make_api_request("GET", path) once, and the route answers               *)
Route(r, up) ==
    /\ auth.state = "serving"
    /\ signed' = GetAuthorizationHeader(auth, "GET", RoutePath(r), "", clock, clock)
    /\ signedBefore' = signed
    /\ api' = MakeApiRequest("GET", RoutePath(r), "", up)
    /\ rest' = RouteAnswer(r, MakeApiRequest("GET", RoutePath(r), "", up))
    /\ UNCHANGED <<hubVars, auth, clock>>

(* ------------------------- POST /trading/orders ------------------------ *)
(* a field of the JSON body as order.get reads it, lines 164-166: "absent" *)
(* stands for a missing key (None), "" for a present but empty value and   *)
(* "#1" for a value that is not a string                                   *)
OrderSymbols == {"absent", "", "BTC-USD"}
OrderSides == {"absent", "", "buy", "#1"}
OrderQuantities == {"absent", "", "0.1"}

(* the bodies posted; type, price, time_in_force and stop_price are left   *)
(* out, so that lines 167-170 read their defaults                          *)
OrderBodies == [symbol : OrderSymbols, side : OrderSides,
                quantity : OrderQuantities]

(* bool(v) of a field, as all() at line 173 takes it *)
Truthy(v) == v \notin {"absent", ""}

(* line 173: not all([symbol, side, quantity]) *)
MissingRequired(order) ==
    ~(Truthy(order.symbol) /\ Truthy(order.side) /\ Truthy(order.quantity))

OrdersPath == "/api/v1/crypto/trading/orders/"

(* TradingClient.place_order, trading.py lines 51-67: the body it posts *)
OrderData(order) ==
    "{" \o order.symbol \o "," \o order.side \o "," \o order.quantity
        \o ",market,gtc}"

(* side.capitalize(), line 192, raises AttributeError unless side is a str *)
CapitalizeRaises(side) == side = "#1"

(* the try block of the route, lines 162-193: the exception that leaves it *)
(* ("none" when it returns), the status that exception carries, the client *)
(* calls made and the body returned                                        *)
PlaceOrderTry(order, result) ==
    IF MissingRequired(order)
    THEN [raised |-> "HTTPException", status_code |-> 400, client_calls |-> 0,
          body |-> NoBody]
    ELSE IF result.outcome = "raise"
    THEN [raised |-> "Exception", status_code |-> 0, client_calls |-> 1,
          body |-> NoBody]
    ELSE IF CapitalizeRaises(order.side)
    THEN [raised |-> "AttributeError", status_code |-> 0, client_calls |-> 1,
          body |-> NoBody]
    ELSE [raised |-> "none", status_code |-> 0, client_calls |-> 1,
          body |-> FormatResponse(result.value, "Buy order placed successfully")]

(* the route, lines 160-199: `except Exception` at line 194 takes every    *)
(* exception that leaves the try block, HTTPException (a subclass of       *)
(* Exception) included, and raises HTTPException 500 in its place          *)
PlaceOrderAnswer(order, result) ==
    LET t == PlaceOrderTry(order, result)
    IN  [called |-> TRUE, route |-> "place_order",
         client_calls |-> t.client_calls,
         http_status |-> IF t.raised = "none" THEN 200 ELSE 500,
         body |-> t.body,
         error |-> IF t.raised = "none" THEN "none" ELSE "HTTPException"]

(* a POST to /trading/orders with the body order, the upstream answering   *)
(* as up if it is asked                                                    *)
PlaceOrder(order, up) ==
    /\ auth.state = "serving"
    /\ IF MissingRequired(order)
       THEN UNCHANGED <<signed, signedBefore, api>>
       ELSE /\ signed' = GetAuthorizationHeader(auth, "POST", OrdersPath,
                                                OrderData(order), clock, clock)
            /\ signedBefore' = signed
            /\ api' = MakeApiRequest("POST", OrdersPath, OrderData(order), up)
    /\ rest' = PlaceOrderAnswer(order,
                    MakeApiRequest("POST", OrdersPath, OrderData(order), up))
    /\ UNCHANGED <<hubVars, auth, clock>>

(* --------------------------- specification ----------------------------- *)
Init ==
    /\ clients = {}
    /\ market_data_subscriptions = EmptySubs
    /\ order_subscriptions = {}
    /\ alive = [c \in Conn |-> FALSE]
    /\ buffered = [c \in Conn |-> 0]
    /\ hpc = [c \in Conn |-> "new"]
    /\ hreply = [c \in Conn |-> "none"]
    /\ unregCalls = [c \in Conn |-> 0]
    /\ unregRaised = {}
    /\ md = IdleMd
    /\ mdFetch = NoFetch
    /\ mdErr = "none"
    /\ mdOwed = {}
    /\ mdFailed = {}
    /\ ord = IdleOrd
    /\ ordFetch = NoFetch
    /\ ordErr = "none"
    /\ ordOwed = {}
    /\ ordFailed = {}
    /\ auth = NoAuth
    /\ clock = Epoch
    /\ signed = NoCall
    /\ signedBefore = NoCall
    /\ api = NoRequest
    /\ rest = NoAnswer

(* the steps of the handlers of the connections C, for clients sending   *)
(* frames of F                                                           *)
Hub(C, F) ==
    \/ \E c \in C : Connect(c)
    \/ \E c \in C : Drop(c)
    \/ \E c \in C, f \in F : Receive(c, f)
    \/ \E c \in C : SendReply(c)
    \/ \E c \in C : Close(c)

Next ==
    \/ Hub(Conn, Frames)
    \/ MdTick
    \/ MdSendDone
    \/ OrdTick
    \/ OrdSendDone
    \/ MdFetchStart
    \/ MdFetchEnd
    \/ OrdFetchStart
    \/ OrdFetchEnd
    \/ \E order \in OrderBodies, up \in Upstream : PlaceOrder(order, up)
    \/ \E key \in ApiKeys, seed \in SeedTexts : Construct(key, seed)
    \/ Tick
    \/ \E method \in Methods, path \in Paths, body \in Bodies,
          timestamp \in Timestamps : Sign(method, path, body, timestamp)
    \/ \E method \in ApiMethods, path \in Paths, body \in Bodies, up \in Upstream :
          Request(method, path, body, up)
    \/ \E r \in Routes, up \in Upstream : Route(r, up)

Spec == Init /\ [][Next]_vars

(* the connection handlers alone *)
NextHub == Hub(Conn, Frames)

SpecHub == Init /\ [][NextHub]_vars

(* the connection handlers and the market-data poller, for clients that   *)
(* subscribe to and unsubscribe from lists of strings                     *)
MdFrames == {f \in Frames : /\ f.type = "market_data"
                            /\ f.action # "other"
                            /\ f.symbols # {} /\ f.symbols \subseteq StrSymbols}

NextMd ==
    \/ Hub(Conn, MdFrames)
    \/ MdTick
    \/ MdSendDone

SpecMd == Init /\ [][NextMd]_vars

(* the same, for clients whose lists name one symbol, a string or a       *)
(* number                                                                 *)
FetchFrames == {f \in Frames : /\ f.type = "market_data"
                               /\ f.action # "other"
                               /\ f.symbols \in {{"BTC-USD"}, {"#7"}}}

NextFetch ==
    \/ Hub(Conn, FetchFrames)
    \/ MdTick
    \/ MdSendDone

SpecFetch == Init /\ [][NextFetch]_vars

(* the connection handlers and the order poller *)
OrdFrames == {f \in Frames : f.type = "orders"}

NextOrd ==
    \/ Hub(Conn, OrdFrames)
    \/ OrdTick
    \/ OrdSendDone

SpecOrd == Init /\ [][NextOrd]_vars

(* a connection handler and both pollers, the upstream calls taking time, *)
(* for a client that subscribes to one symbol and to the order updates    *)
LoopFrames == {f \in Frames :
                 \/ f.type = "market_data" /\ f.action = "subscribe"
                                           /\ f.symbols = {"BTC-USD"}
                 \/ f.type = "orders" /\ f.action = "subscribe"
                 \/ f.type = "ping"}

NextLoop ==
    \/ Hub({1}, LoopFrames)
    \/ MdIdleTick
    \/ MdFetchStart
    \/ MdFetchEnd
    \/ MdSendDone
    \/ OrdIdleTick
    \/ OrdFetchStart
    \/ OrdFetchEnd
    \/ OrdSendDone

SpecLoop == Init /\ [][NextLoop]_vars

(* the authenticator: its construction from the environment, the clock    *)
(* and calls of get_authorization_header                                  *)
NextAuth ==
    \/ \E key \in ApiKeys, seed \in SeedTexts : Construct(key, seed)
    \/ Tick
    \/ \E method \in Methods, path \in Paths, body \in Bodies,
          timestamp \in Timestamps : Sign(method, path, body, timestamp)

SpecAuth == Init /\ [][NextAuth]_vars

(* the authenticated transport: construction, the clock and calls of      *)
(* make_api_request for the account, with every method, against an         *)
(* upstream that answers in every way                                      *)
AccountPath == "/api/v1/crypto/trading/accounts/"

NextApi ==
    \/ \E key \in ApiKeys, seed \in SeedTexts : Construct(key, seed)
    \/ Tick
    \/ \E method \in ApiMethods, up \in Upstream :
          Request(method, AccountPath, "", up)

SpecApi == Init /\ [][NextApi]_vars

(* the REST server: construction of its authenticator at import, the      *)
(* clock and requests to its GET routes                                   *)
NextRest ==
    \/ \E key \in ApiKeys, seed \in SeedTexts : Construct(key, seed)
    \/ Tick
    \/ \E r \in Routes, up \in Upstream : Route(r, up)

SpecRest == Init /\ [][NextRest]_vars

(* the REST server and requests to its POST route *)
NextPost ==
    \/ \E key \in ApiKeys, seed \in SeedTexts : Construct(key, seed)
    \/ Tick
    \/ \E order \in OrderBodies, up \in Upstream : PlaceOrder(order, up)

SpecPost == Init /\ [][NextPost]_vars

(* one connection handler and both pollers, for a client that subscribes  *)
(* to and unsubscribes from one symbol and the order updates; a sleep ends *)
(* and a send returns (the library closes a connection whose peer stopped  *)
(* answering)                                                              *)
LiveFrames == {f \in Frames :
                 \/ f.type = "market_data" /\ f.action # "other"
                                           /\ f.symbols = {"BTC-USD"}
                 \/ f.type = "orders" /\ f.action # "other"}

NextLive ==
    \/ Hub({1}, LiveFrames)
    \/ MdTick
    \/ MdSendDone
    \/ OrdTick
    \/ OrdSendDone

SpecLive ==
    /\ Init /\ [][NextLive]_vars
    /\ WF_vars(MdTick) /\ WF_vars(MdSendDone)
    /\ WF_vars(OrdTick) /\ WF_vars(OrdSendDone)

(* ------------------------------ claims --------------------------------- *)
Finished(c) == hpc[c] \in {"done", "crashed"}

Member(c) ==
    \/ \E s \in Keys(market_data_subscriptions) : c \in market_data_subscriptions[s]
    \/ c \in order_subscriptions

(* C1: once the handler of a connection has finished, the connection is a  *)
(* member of no symbol's subscriber set and of no order subscribers: no    *)
(* reference to it is left in the registry.                                *)
NoDanglingReference == \A c \in Conn : Finished(c) => ~Member(c)

(* C2: a symbol is a key of the market-data subscription mapping if and    *)
(* only if its subscriber set is non-empty.                                *)
KeyIffSubscribed ==
    \A s \in Keys(market_data_subscriptions) : market_data_subscriptions[s] # {}

(* a connection has been cleaned out of the registry, its symbol pruned,   *)
(* while another connection keeps the only remaining key                   *)
KeyPruned ==
    \E c \in Conn, d \in Conn :
        /\ c # d
        /\ hpc[c] = "done" /\ unregCalls[c] = 1
        /\ market_data_subscriptions = [s \in {"ETH-USD"} |-> {d}]

(* C3: unregister is idempotent: a call for a connection that has already  *)
(* been removed never raises.                                              *)
UnregisterNeverRaises == unregRaised = {}

(* C4: over the lifetime of a connection unregister is invoked exactly     *)
(* once: never twice, and once when the handler has finished.              *)
UnregisteredExactlyOnce ==
    \A c \in Conn : unregCalls[c] <= 1 /\ (Finished(c) => unregCalls[c] = 1)

(* C5: a cycle in which a delivery failed is not aborted: when it is over, *)
(* every connection that stayed connected and subscribed has been served,  *)
(* and the recipient of the failed delivery has been cleaned up.           *)
FanoutSurvivesFailedSend ==
    /\ (md.pc = "idle" /\ mdFailed # {}) =>
           mdOwed = {} /\ \A w \in mdFailed : ~Member(w)
    /\ (ord.pc = "idle" /\ ordFailed # {}) =>
           ordOwed = {} /\ \A w \in ordFailed : ~Member(w)

(* C6: neither poller loop ever stops: whatever a cycle ran into, each     *)
(* poller is again and again back at the head of its loop.                 *)
PollersNeverStop == ([]<>(md.pc = "idle")) /\ ([]<>(ord.pc = "idle"))

(* both pollers are back at the head of their loops after a cycle that     *)
(* logged an exception, one of them after a failed send                    *)
PollersSurvivedErrors ==
    /\ md.pc = "idle" /\ mdErr = "RuntimeError" /\ mdFailed # {}
    /\ ord.pc = "idle" /\ ordErr = "Exception"

(* a step of the market-data poller: every step of a connection handler   *)
(* moves the handler or its transport                                     *)
PollerStep == conns' = conns /\ mdVars' # mdVars

(* C7: a market_data frame for a symbol is only ever sent to a member of   *)
(* that symbol's subscriber set at the moment of the send, and starting a  *)
(* fanout (skipping returned symbols without subscribers) logs no error.   *)
SentOnlyToSubscribers ==
    [][PollerStep =>
          /\ md'.pc = "send" =>
                /\ md'.sym \in Keys(market_data_subscriptions')
                /\ md'.w \in market_data_subscriptions'[md'.sym]
          /\ md.pc = "idle" =>
                mdErr' \in {"none", "TypeError", "Exception", "AttributeError"}]_vars

(* a frame is being sent to a subscriber while another connected client is *)
(* not subscribed to its symbol                                            *)
SendingPastNonSubscriber ==
    /\ md.pc = "send"
    /\ md.sym \in Keys(market_data_subscriptions)
    /\ md.w \in market_data_subscriptions[md.sym]
    /\ \E c \in clients : alive[c] /\ c \notin market_data_subscriptions[md.sym]

(* C8: a connection that was subscribed (with the success reply received)  *)
(* when a tick fetched data for its symbol, and that stayed connected and  *)
(* subscribed, has received the frame when the cycle is over.              *)
SubscriberServedByTick == md.pc = "idle" => mdOwed = {}

(* C9: a tick that finds no subscribed symbol performs no fetch; a tick    *)
(* that finds some fetches once, for exactly the symbols with subscribers. *)
FetchesExactlySubscribed ==
    [][MdTick =>
          IF Keys(market_data_subscriptions) = {}
          THEN mdFetch' = NoFetch
          ELSE mdFetch' = [calls |-> 1,
                           symbols |-> Keys(market_data_subscriptions)]]_vars

(* C10: the payload an order tick fetched is sent to every member of the   *)
(* order subscribers: when the cycle is over, no connection that stayed     *)
(* connected and subscribed is left without it.                             *)
OrdersReachEveryMember == ord.pc = "idle" => ordOwed = {}

(* the subscribers of a symbol, none when the symbol is no key *)
SubscribersOf(subs, s) == IF s \in Keys(subs) THEN subs[s] ELSE {}

(* a step in which the handler of c takes a frame off its socket and has  *)
(* the reply r for it                                                      *)
Replies(c, r) == hpc[c] = "recv" /\ hreply'[c] = r /\ hreply'[c] # hreply[c]

UnsubscribeFrames == {f \in Frames : /\ f.type = "market_data"
                                     /\ f.action = "unsubscribe"
                                     /\ f.symbols # {}}

(* C11: handling an unsubscribe frame of connection c removes c from the   *)
(* subscribers of each named symbol and from no other symbol; a named      *)
(* symbol stays a key exactly when it has subscribers left; the            *)
(* memberships of every other connection and the order subscribers are     *)
(* unchanged.                                                              *)
UnsubscribeRemovesOnlyNamed ==
    [][\A c \in Conn : Replies(c, "unsubscribed") =>
        \A f \in UnsubscribeFrames :
          Receive(c, f) =>
              /\ \A s \in AllSymbols :
                    SubscribersOf(market_data_subscriptions', s) =
                        IF s \in f.symbols
                        THEN SubscribersOf(market_data_subscriptions, s) \ {c}
                        ELSE SubscribersOf(market_data_subscriptions, s)
              /\ \A s \in f.symbols :
                    s \in Keys(market_data_subscriptions') <=>
                        SubscribersOf(market_data_subscriptions, s) \ {c} # {}
              /\ \A s \in AllSymbols \ f.symbols :
                    s \in Keys(market_data_subscriptions') <=>
                        s \in Keys(market_data_subscriptions)
              /\ order_subscriptions' = order_subscriptions
              /\ clients' = clients]_vars

(* a connection that unsubscribed is left under one symbol only, the other *)
(* symbol is no key any more, and another connection keeps its membership  *)
UnsubscribedFromOne ==
    \E c \in Conn, d \in Conn :
        /\ c # d
        /\ hpc[c] = "reply" /\ hreply[c] = "unsubscribed" /\ alive[c]
        /\ market_data_subscriptions =
               [s \in {"BTC-USD", "#7"} |-> IF s = "BTC-USD" THEN {c} ELSE {d}]

(* frames that are not valid JSON *)
NotJsonFrames == {f \in Frames : f.type \in {"invalid", "undecodable"}}

(* C12: a frame that is not valid JSON is answered with the error frame    *)
(* "Invalid JSON format", sent from a handler that goes on to its next     *)
(* frame, and changes nothing in the registry.                             *)
InvalidJsonAnswered ==
    [][\A c \in Conn : hpc[c] = "recv" =>
        \A f \in NotJsonFrames :
          Receive(c, f) =>
              /\ hreply'[c] = "error_json"
              /\ hpc'[c] = "xreply"
              /\ UNCHANGED registry]_vars

(* frames of an unknown type, and subscription frames whose action is     *)
(* neither subscribe nor unsubscribe                                      *)
ProtocolErrorFrames ==
    {f \in Frames : \/ f.type = "unknown"
                    \/ f.type \in {"market_data", "orders"} /\ f.action = "other"}

(* C13: a frame of an unknown type, or a market_data / orders frame with   *)
(* an unknown action, is answered with an error frame to its sender, from  *)
(* a handler that goes on to its next frame, and changes nothing in the    *)
(* registry.                                                               *)
ProtocolErrorAnswered ==
    [][\A c \in Conn : hpc[c] = "recv" =>
        \A f \in ProtocolErrorFrames :
          Receive(c, f) =>
              /\ hreply'[c] \in {"error_type", "error_nosymbols"}
              /\ hpc'[c] = "reply"
              /\ UNCHANGED registry]_vars

PingFrame == [type |-> "ping"]

(* C14: handling a ping of connection c leaves the registry unchanged and  *)
(* has one pong for c as its reply; writing that pong to the open          *)
(* connection leaves the registry unchanged as well, and the handler then  *)
(* waits for the next frame with nothing more to send.                     *)
PingYieldsOnePong ==
    [][\A c \in Conn :
          /\ (hpc[c] = "recv" /\ Receive(c, PingFrame)) =>
                /\ hreply'[c] = "pong" /\ hpc'[c] = "reply"
                /\ UNCHANGED registry
          /\ (hpc[c] = "reply" /\ hreply[c] = "pong" /\ alive[c] /\ SendReply(c)) =>
                /\ hreply'[c] = "none" /\ hpc'[c] = "recv"
                /\ UNCHANGED registry]_vars

(* a pong is about to be written to an open connection that holds a        *)
(* market-data and an order subscription                                   *)
PongPending ==
    \E c \in Conn :
        /\ hpc[c] = "reply" /\ hreply[c] = "pong" /\ alive[c]
        /\ c \in order_subscriptions
        /\ \E s \in Keys(market_data_subscriptions) : c \in market_data_subscriptions[s]

(* the timestamp the last call of get_authorization_header had to sign *)
SignedTimestamp == IF signed.timestamp = NoTimestamp THEN signed.now
                   ELSE signed.timestamp

(* C16: the message signed is api_key, timestamp in decimal, path, method  *)
(* and body concatenated in this order without delimiters; the x-timestamp *)
(* header carries the timestamp signed; for K, 1700000000,                 *)
(* GET /api/v1/crypto/trading/accounts/ and no body the message is         *)
(* K1700000000/api/v1/crypto/trading/accounts/GET.                         *)
CanonicalMessageSigned ==
    signed.called =>
        /\ signed.message = auth.api_key \o signed.headers.x_timestamp
                               \o signed.path \o signed.method \o signed.body
        /\ signed.headers.x_signature.of_message = signed.message
        /\ SignedTimestamp = Epoch => signed.headers.x_timestamp = "1700000000"
        /\ SignedTimestamp = Epoch + 1 => signed.headers.x_timestamp = "1700000001"
        /\ SignedTimestamp = Epoch + 2 => signed.headers.x_timestamp = "1700000002"
        /\ ( /\ auth.api_key = "K" /\ SignedTimestamp = 1700000000
             /\ signed.method = "GET" /\ signed.body = ""
             /\ signed.path = "/api/v1/crypto/trading/accounts/" )
           => signed.message = "K1700000000/api/v1/crypto/trading/accounts/GET"

(* the request of the scenario has been signed, the timestamp injected *)
ScenarioSigned ==
    /\ signed.called /\ signed.timestamp = 1700000000 /\ signed.now # 1700000000
    /\ signed.message = "K1700000000/api/v1/crypto/trading/accounts/GET"
    /\ signed.headers.x_timestamp = "1700000000"

(* the last two calls of get_authorization_header had the same arguments,  *)
(* the timestamp injected                                                  *)
SameCallTwice ==
    /\ signed.called /\ signedBefore.called
    /\ signed.timestamp # NoTimestamp
    /\ signed.method = signedBefore.method /\ signed.path = signedBefore.path
    /\ signed.body = signedBefore.body
    /\ signed.timestamp = signedBefore.timestamp

(* C17: two calls of get_authorization_header with the same method, path,  *)
(* body and injected timestamp return identical headers, whatever the      *)
(* clock read at either call and whatever was signed before.               *)
DeterministicHeaders == SameCallTwice => signed.headers = signedBefore.headers

(* the same call was made at two different times of the clock *)
SameCallAtTwoTimes == SameCallTwice /\ signed.now # signedBefore.now

(* C18: an authenticator is in service only if the API key is present and  *)
(* the seed decodes to exactly 32 bytes; with any other environment the    *)
(* construction itself fails, so nothing is ever signed by an              *)
(* authenticator that cannot sign.                                         *)
NoUnusableAuthenticator ==
    /\ auth.state = "serving" =>
          /\ auth.api_key # ""
          /\ ~B64Decode(auth.seed).raised
          /\ B64Decode(auth.seed).bytes = 32
    /\ signed.called => signed.headers.x_signature.key_bytes = 32

(* a construction with a seed of the wrong length has failed *)
ConstructionRefused ==
    /\ auth.state = "failed" /\ auth.error = "ValueError: seed length"
    /\ auth.api_key = "K" /\ B64Decode(auth.seed).bytes = 16

(* C15: make_api_request raises for every upstream answer with a status    *)
(* outside 2xx, with the status code in the message (and the body when     *)
(* there is one), and never returns a value for it; a network failure      *)
(* raises as well, without a status code.                                  *)
FailureStatusSurfaced ==
    api.called /\ api.http_calls = 1 =>
        /\ (api.upstream.kind = "http" /\ api.upstream.status \notin 200..299) =>
              /\ api.outcome = "raise"
              /\ api.error_has_status
              /\ api.upstream.content # "empty" => api.error_has_body
        /\ api.upstream.kind = "network_error" =>
              api.outcome = "raise" /\ ~api.error_has_status

(* the upstream call of the last request succeeded *)
UpstreamSucceeded ==
    /\ api.upstream.kind = "http" /\ api.upstream.status \in 200..299
    /\ api.upstream.content # "text"

RacesAreHarmless ==
    [][( /\ PollerStep
         /\ md.pc = "send" /\ alive[md.w]
         /\ md.w \in SubscribersOf(market_data_subscriptions, md.sym) )
       => mdErr' = "none"]_vars

(* the next step of the order poller, of the market-data poller and of the *)
(* handler of connection c is possible                                     *)
OrdCanStep ==
    /\ ord.pc = "idle" => ENABLED (OrdIdleTick \/ OrdFetchStart)
    /\ ord.pc = "send" => ENABLED OrdSendDone

MdCanStep ==
    /\ md.pc = "idle" => ENABLED (MdIdleTick \/ MdFetchStart)
    /\ md.pc = "send" => ENABLED MdSendDone

HandlerCanStep(c) ==
    /\ hpc[c] = "new" => ENABLED Connect(c)
    /\ (hpc[c] = "recv" /\ alive[c]) => ENABLED Receive(c, PingFrame)
    /\ hpc[c] \in {"reply", "xreply"} => ENABLED SendReply(c)

(* C21: while a poller is in its inter-tick sleep or inside its upstream   *)
(* request, the other poller and the handler of every connection can take  *)
(* their next step: a frame that has arrived is handled, a reply is        *)
(* written, the other poller's sleep ends or its send completes.           *)
NoFlowBlocksOthers ==
    /\ md.pc \in {"idle", "fetch"} =>
          OrdCanStep /\ \A c \in Conn : HandlerCanStep(c)
    /\ ord.pc \in {"idle", "fetch"} =>
          MdCanStep /\ \A c \in Conn : HandlerCanStep(c)

(* the part of C21 about the sleeps: while no poller is inside an upstream *)
(* request every flow can take its next step                               *)
SleepBlocksNothing ==
    (md.pc # "fetch" /\ ord.pc # "fetch") =>
        MdCanStep /\ OrdCanStep /\ \A c \in Conn : HandlerCanStep(c)

(* C22: the status check answers "authenticated" only when the upstream    *)
(* accounts request was answered with a 2xx status, and answers "error"    *)
(* when the upstream answered with a status of 400 or above or the network *)
(* call failed.                                                            *)
AuthStatusTellsTheTruth ==
    (rest.called /\ rest.route = "auth_status") =>
        /\ rest.body.data = "authenticated" =>
              api.upstream.kind = "http" /\ api.upstream.status \in 200..299
        /\ ( \/ api.upstream.kind = "network_error"
             \/ api.upstream.kind = "http" /\ api.upstream.status >= 400 ) =>
              rest.body.data = "error"

(* the part of C22 about a failed network call *)
NetworkFailureIsError ==
    (rest.called /\ rest.route = "auth_status"
                 /\ api.upstream.kind = "network_error") =>
        rest.body.data = "error"

(* a POST to /trading/orders whose body lacks a required field has just   *)
(* been answered                                                           *)
MissingAnswered ==
    /\ rest'.called /\ rest'.route = "place_order" /\ rest' # rest
    /\ \E order \in OrderBodies, up \in Upstream :
          MissingRequired(order) /\ PlaceOrder(order, up)

(* C23: a POST to /trading/orders whose body lacks symbol, side or         *)
(* quantity is answered with HTTP 400 and no upstream call is made for it. *)
MissingFieldsRejected ==
    [][MissingAnswered =>
          /\ rest'.http_status = 400
          /\ rest'.client_calls = 0 /\ api' = api /\ signed' = signed]_vars

(* the part of C23 about the upstream: no call is made for such a body *)
MissingFieldsNotForwarded ==
    [][MissingAnswered =>
          rest'.client_calls = 0 /\ api' = api /\ signed' = signed]_vars

====
